---- MODULE Spec2Model ----
(***************************************************************************)
(* Model of the agent communication substrate of toronto-ai-weather:       *)
(* src/utils/multi_agent.py (Message, Agent, MessageBus, the worker and    *)
(* coordinator agents, MultiAgentSystem).                                  *)
(*                                                                         *)
(* Scheduling.  The program runs on one asyncio event loop.  A coroutine   *)
(* gives up control only at an await that really suspends.  Queue.put on   *)
(* an unbounded queue and Queue.get on a non-empty queue do not suspend,   *)
(* so the only suspension point of the whole module is Agent.run's         *)
(* `await self.message_queue.get()` on an EMPTY queue.  The variable cur   *)
(* holds the agent whose run() task is executing (0: none, the caller's    *)
(* code runs); the caller's operations are taken only when cur = 0, and a  *)
(* task keeps cur from the moment it is resumed until it suspends or ends. *)
(* The event loop runs the tasks that are due in the order in which they   *)
(* became due (loop.call_soon is first in, first out): ready is that       *)
(* queue.  The callers' own code (run_example, main_loop, whatever calls   *)
(* stop) runs on timers of its own and may come in between any two tasks.  *)
(***************************************************************************)
EXTENDS Naturals, Sequences, FiniteSets, TLC

\* ------------------------------------------------------------------ bounds
\* Agent objects ever created; messages the callers send in a run of the
\* lifecycle specifications; publishes in a run of the bus specification.
MaxAgents == 3
MaxMessages == 2
MaxPublishes == 1
NumSystems == 2
\* MessageBus objects ever constructed.
MaxBuses == 3
\* Effective start() calls on the application object.
MaxStarts == 3
\* Cycles of the application's main_loop on record.
MaxCycles == 3

\* ------------------------------------------------------------- enumerations
DATA_COLLECTOR == "data_collector"
DATA_PROCESSOR == "data_processor"
MODEL_TRAINER == "model_trainer"
PREDICTION_ENGINE == "prediction_engine"
ANOMALY_DETECTOR == "anomaly_detector"
FEEDBACK_ANALYZER == "feedback_analyzer"
SYSTEM_MONITOR == "system_monitor"
COORDINATOR == "coordinator"

AgentRole ==
    { DATA_COLLECTOR, DATA_PROCESSOR, MODEL_TRAINER, PREDICTION_ENGINE,
      ANOMALY_DETECTOR, FEEDBACK_ANALYZER, SYSTEM_MONITOR, COORDINATOR }

REQUEST == "request"
RESPONSE == "response"
NOTIFICATION == "notification"
TASK_ASSIGNMENT == "task_assignment"
TASK_COMPLETION == "task_completion"
MODEL_UPDATE == "model_update"
PERFORMANCE_METRIC == "performance_metric"
ANOMALY_ALERT == "anomaly_alert"
SYSTEM_STATUS == "system_status"

MessageType ==
    { REQUEST, RESPONSE, NOTIFICATION, TASK_ASSIGNMENT, TASK_COMPLETION,
      MODEL_UPDATE, PERFORMANCE_METRIC, ANOMALY_ALERT, SYSTEM_STATUS }

\* Python's None, for a string-valued field, a role and a message id; an agent
\* id "<role value>_<k>" is the pair <<role value, k>>, and None is <<>>.
None == "None"
NoRole == "None"
NoId == 0
NoAgent == << >>
NoBus == 0
\* A value of type Any that is a list or a dict: legal as a content value,
\* but not hashable, so it cannot be a dict key.
Unhashable == "unhashable"

Objs == 1..MaxAgents
BusObjs == 1..MaxBuses
Systems == 1..NumSystems

\* ---------------------------------------------------------- Python helpers
\* A dict that keeps insertion order is a sequence of <<key, value>> pairs.
DictHas(d, k) == \E i \in 1..Len(d) : d[i][1] = k
DictGet(d, k) == d[CHOOSE i \in 1..Len(d) : d[i][1] = k][2]
DictSet(d, k, v) ==
    IF DictHas(d, k)
    THEN [i \in 1..Len(d) |-> IF d[i][1] = k THEN <<k, v>> ELSE d[i]]
    ELSE Append(d, <<k, v>>)
DictDel(d, k) == SelectSeq(d, LAMBDA e : e[1] # k)
DictValues(d) == [i \in 1..Len(d) |-> d[i][2]]
DictKeys(d) == { d[i][1] : i \in 1..Len(d) }

Range(s) == { s[i] : i \in 1..Len(s) }
Count(s, x) == Cardinality({ i \in 1..Len(s) : s[i] = x })
\* list.remove(x): the first occurrence goes.
ListRemove(s, x) ==
    LET i == CHOOSE j \in 1..Len(s) : s[j] = x /\ \A k \in 1..(j - 1) : s[k] # x
    IN  SubSeq(s, 1, i - 1) \o SubSeq(s, i + 1, Len(s))

\* An unordered dict (a ledger) is a function on its keys.
EmptyMap == [k \in {} |-> 0]
MapSet(f, k, v) == [x \in (DOMAIN f) \cup {k} |-> IF x = k THEN v ELSE f[x]]

\* ----------------------------------------------------------------- Message
\* The content payload: message.content.get(key) for the keys the handlers
\* read; an absent key reads as None.  Payload values no handler branches on
\* (source, model_type, value, severity, details, the summaries) are carried
\* by `body`, a tag of the summary a reply holds.
NoContent ==
    [ task |-> None, status |-> None, error |-> None, request_type |-> None,
      metric_type |-> None, component |-> None, anomaly_type |-> None,
      body |-> None ]

NewMessage(mid, sid, srole, rid, rrole, mtype, content, reply_to) ==
    [ message_id |-> mid, sender_id |-> sid, sender_role |-> srole,
      recipient_id |-> rid, recipient_role |-> rrole, message_type |-> mtype,
      content |-> content, in_reply_to |-> reply_to ]

\* A handler's `return None`.
NoMessage ==
    NewMessage(NoId, NoAgent, NoRole, NoAgent, NoRole, None, NoContent, NoId)

VARIABLES
    subscribers,         \* MessageBus.subscribers: dict agent_id -> agent
    role_subscribers,    \* MessageBus.role_subscribers: role -> list of agents
    agent_id,            \* Agent.agent_id, per agent object (NoAgent: no object)
    role,                \* Agent.role
    message_queue,       \* Agent.message_queue
    running,             \* Agent.running
    pc,                  \* where the agent's run() task stands
    cur,                 \* the agent whose task is executing, or 0
    ready,               \* the event loop's ready queue: tasks due to run
    tasks,               \* CoordinatorAgent.tasks
    performance_metrics, \* CoordinatorAgent.performance_metrics
    anomalies,           \* CoordinatorAgent.anomalies
    system_status,       \* CoordinatorAgent.system_status
    sys_agents,          \* MultiAgentSystem.agents: dict agent_id -> agent
    sys_tasks,           \* MultiAgentSystem.tasks: the agents whose tasks it holds
    published,           \* log: every publish, [msg, to]; message k is published[k]
    dispatched,          \* log: per agent, what its loop handed to handle_message
    issued,              \* number of messages the callers have sent
    bus_instance,        \* MessageBus._instance (NoBus: None)
    buses,               \* the MessageBus objects constructed so far
    data,                \* a serialized message handed to Message.from_dict
    parsed,              \* what Message.from_dict(data) came to
    stop_mark,           \* history: per agent, 0 or 1 + the number of publishes
                         \* made before stop() was called on it
    faulty,              \* the agent objects whose receive_message raises
    app_running,         \* TorontoAIWeatherAgentSystem.running
    app_agents,          \* how many agents its MultiAgentSystem holds
    app_role_subscribers,\* per role, how many agents the bus lists for it
    app_tasks,           \* how many run() tasks its MultiAgentSystem holds
    main_loops,          \* how many main_loop tasks have not returned
    app_reached          \* per main_loop cycle, how many inboxes each of its
                         \* assignments to DATA_COLLECTOR reached

busVars == <<subscribers, role_subscribers>>
agentVars == <<agent_id, role>>
loopVars == <<message_queue, running, pc, cur, ready>>
ledgerVars == <<tasks, performance_metrics, anomalies, system_status>>
sysVars == <<sys_agents, sys_tasks>>
logVars == <<published, dispatched, issued>>
clsVars == <<bus_instance, buses>>
wireVars == <<data, parsed>>
stopVars == <<stop_mark>>
faultVars == <<faulty>>
appVars == <<app_running, app_agents, app_role_subscribers, app_tasks,
             main_loops, app_reached>>
auxVars == <<wireVars, stopVars, faultVars, appVars>>
vars ==
    <<busVars, agentVars, loopVars, ledgerVars, sysVars, logVars, clsVars,
      auxVars>>

\* uuid.uuid4(): an id no earlier message has.  Every message of the model is
\* published as soon as it is built, so the ids are 1, 2, ... in that order.
NewMessageId == Len(published) + 1

\* ---------------------------------------------------------------- Message
\* The serialized form: the keys it has and their values.  message_id,
\* recipient_id and in_reply_to are read with dict.get, so a missing key and
\* a None value are the same to the parser; the keys listed in WireKeys are
\* the ones whose absence or value the parser can tell.
WireKeys ==
    { "sender_id", "sender_role", "recipient_role", "message_type", "content",
      "timestamp" }
\* A string that is no value of AgentRole or MessageType and no ISO date.
Bogus == "bogus"
\* The empty string.
Empty == ""
\* A date in ISO format.
IsoDate == "2026-01-01T00:00:00"

\* The outcomes of a call: nothing yet, an exception, or the object built.
NotParsed == [ kind |-> "none" ]
Raised(exception) == [ kind |-> exception ]
Built(message) == [ kind |-> "Message", msg |-> message ]

\* bool(value) of a serialized value.
Truthy(value) == value \notin { None, Empty }

\* Message.from_dict(data): the keyword arguments are evaluated in the order
\* written, so the first failing one decides the exception; data[key] raises
\* KeyError on a missing key, AgentRole(value), MessageType(value) and
\* datetime.fromisoformat(value) raise ValueError on a value they do not know;
\* recipient_role and timestamp are converted only when present and truthy.
\* Message.__init__ gives a message without an id a fresh one.
from_dict(d) ==
    LET has(k) == k \in d.keys
        rrole == IF has("recipient_role") /\ Truthy(d.recipient_role)
                 THEN d.recipient_role ELSE NoRole
    IN  IF ~ has("sender_id") THEN Raised("KeyError")
        ELSE IF ~ has("sender_role") THEN Raised("KeyError")
        ELSE IF d.sender_role \notin AgentRole THEN Raised("ValueError")
        ELSE IF rrole \notin AgentRole \cup {NoRole} THEN Raised("ValueError")
        ELSE IF ~ has("message_type") THEN Raised("KeyError")
        ELSE IF d.message_type \notin MessageType THEN Raised("ValueError")
        ELSE IF ~ has("content") THEN Raised("KeyError")
        ELSE IF has("timestamp") /\ Truthy(d.timestamp) /\ d.timestamp # IsoDate
             THEN Raised("ValueError")
        ELSE Built(NewMessage(
                 IF d.message_id # NoId THEN d.message_id ELSE NewMessageId,
                 d.sender_id, d.sender_role, d.recipient_id, rrole,
                 d.message_type, d.content, d.in_reply_to))

\* ------------------------------------------------------------- MessageBus
\* MessageBus(): __init__ raises RuntimeError when _instance is set, and
\* otherwise builds a bus object; it never assigns _instance.
MessageBus_init ==
    IF bus_instance # NoBus
    THEN buses' = buses
    ELSE buses' = buses \cup {Cardinality(buses) + 1}

\* MessageBus.get_instance(): builds the bus and keeps it in _instance when
\* _instance is None; returns _instance.
get_instance ==
    IF bus_instance = NoBus
    THEN /\ MessageBus_init
         /\ bus_instance' = Cardinality(buses) + 1
    ELSE UNCHANGED <<bus_instance, buses>>

\* MessageBus.subscribe(agent); the agent's fields are read in the new state,
\* so that create_agent can subscribe the agent it has just built.
\* subscribe that leaves the role list alone when the agent is in it.
subscribe_Once(o) ==
    /\ subscribers' = DictSet(subscribers, agent_id'[o], o)
    /\ role_subscribers' =
           IF o \in Range(role_subscribers[role'[o]])
           THEN role_subscribers
           ELSE [role_subscribers EXCEPT ![role'[o]] = Append(@, o)]

subscribe_IdOnly(o) ==
    /\ subscribers' = DictSet(subscribers, agent_id'[o], o)
    /\ role_subscribers' = role_subscribers

subscribe(o) ==
    /\ subscribers' = DictSet(subscribers, agent_id'[o], o)
    /\ role_subscribers' = [role_subscribers EXCEPT ![role'[o]] = Append(@, o)]

\* unsubscribe that forgets the role list.
unsubscribe_IdOnly(aid) ==
    /\ subscribers' = DictDel(subscribers, aid)
    /\ role_subscribers' = role_subscribers

\* MessageBus.unsubscribe(agent_id)
unsubscribe(aid) ==
    IF DictHas(subscribers, aid)
    THEN LET agent == DictGet(subscribers, aid)
         IN  /\ role_subscribers' =
                    [role_subscribers EXCEPT ![role[agent]] = ListRemove(@, agent)]
             /\ subscribers' = DictDel(subscribers, aid)
    ELSE UNCHANGED <<subscribers, role_subscribers>>

\* publish with the role test before the id test.
PublishTargets_RoleFirst(message) ==
    IF message.recipient_role # NoRole
    THEN role_subscribers[message.recipient_role]
    ELSE IF message.recipient_id # NoAgent
         THEN IF DictHas(subscribers, message.recipient_id)
              THEN << DictGet(subscribers, message.recipient_id) >>
              ELSE << >>
         ELSE DictValues(subscribers)

\* publish walking the role list from its end.
PublishTargets_RoleReversed(message) ==
    IF message.recipient_id # NoAgent
    THEN IF DictHas(subscribers, message.recipient_id)
         THEN << DictGet(subscribers, message.recipient_id) >>
         ELSE << >>
    ELSE IF message.recipient_role # NoRole
         THEN LET l == role_subscribers[message.recipient_role]
              IN  [i \in 1..Len(l) |-> l[Len(l) + 1 - i]]
         ELSE DictValues(subscribers)

\* publish whose broadcast leaves the sender out.
PublishTargets_NotToSender(message) ==
    IF message.recipient_id # NoAgent
    THEN IF DictHas(subscribers, message.recipient_id)
         THEN << DictGet(subscribers, message.recipient_id) >>
         ELSE << >>
    ELSE IF message.recipient_role # NoRole
         THEN role_subscribers[message.recipient_role]
         ELSE SelectSeq(DictValues(subscribers),
                        LAMBDA o : agent_id[o] # message.sender_id)

\* publish that broadcasts when the role's list is empty.
PublishTargets_EmptyRoleToAll(message) ==
    IF message.recipient_id # NoAgent
    THEN IF DictHas(subscribers, message.recipient_id)
         THEN << DictGet(subscribers, message.recipient_id) >>
         ELSE << >>
    ELSE IF message.recipient_role # NoRole
            /\ role_subscribers[message.recipient_role] # << >>
         THEN role_subscribers[message.recipient_role]
         ELSE DictValues(subscribers)

\* publish that falls back to the role when the id is not in the directory.
PublishTargets_UnknownIdToRole(message) ==
    IF message.recipient_id # NoAgent /\ DictHas(subscribers, message.recipient_id)
    THEN << DictGet(subscribers, message.recipient_id) >>
    ELSE IF message.recipient_role # NoRole
         THEN role_subscribers[message.recipient_role]
         ELSE IF message.recipient_id # NoAgent THEN << >>
              ELSE DictValues(subscribers)

\* MessageBus.publish: the agents whose receive_message is called, in order.
PublishTargets(message) ==
    IF message.recipient_id # NoAgent
    THEN IF DictHas(subscribers, message.recipient_id)
         THEN << DictGet(subscribers, message.recipient_id) >>
         ELSE << >>
    ELSE IF message.recipient_role # NoRole
         THEN role_subscribers[message.recipient_role]
         ELSE DictValues(subscribers)

\* A receive_message that puts the message at the head of the inbox.
Deliver_Front(queues, targets, message) ==
    [ o \in Objs |->
        [i \in 1..Count(targets, o) |-> message] \o queues[o] ]

\* Agent.receive_message on every target: Queue.put appends, without
\* suspending (the queues are unbounded) ...
Deliver(queues, targets, message) ==
    [ o \in Objs |->
        queues[o] \o [i \in 1..Count(targets, o) |-> message] ]

\* ... and wakes the task that waits in Queue.get of that queue: the first
\* put resolves the getter's future, which makes the task due.
Wake(pcs, targets) ==
    [ o \in Objs |->
        IF pcs[o] = "waiting" /\ o \in Range(targets) THEN "woken" ELSE pcs[o] ]

Woken(pcs, targets) ==
    LET first(i) == \A j \in 1..(i - 1) : targets[j] # targets[i]
        idx == { i \in 1..Len(targets) : pcs[targets[i]] = "waiting" /\ first(i) }
        F[k \in 0..Len(targets)] ==
            IF k = 0 THEN << >>
            ELSE IF k \in idx THEN Append(F[k - 1], targets[k]) ELSE F[k - 1]
    IN  F[Len(targets)]

\* ------------------------------------------------------------------ Agent
\* The message types the agent's class registers handlers for in __init__.
message_handlers(o) ==
    CASE role[o] = DATA_COLLECTOR -> { TASK_ASSIGNMENT, REQUEST }
      [] role[o] = MODEL_TRAINER -> { TASK_ASSIGNMENT, REQUEST }
      [] role[o] = COORDINATOR ->
            { TASK_COMPLETION, PERFORMANCE_METRIC, ANOMALY_ALERT, SYSTEM_STATUS }
      [] OTHER -> {}

\* What a handler call comes to: it raised or returned `reply`, and left the
\* agent's four ledgers as given.
Effect(raised, reply, t, pm, an, ss) ==
    [ raised |-> raised, reply |-> reply, tasks |-> t,
      performance_metrics |-> pm, anomalies |-> an, system_status |-> ss ]

Returns(o, reply) ==
    Effect(FALSE, reply, tasks[o], performance_metrics[o], anomalies[o],
           system_status[o])

Raises(o) ==
    Effect(TRUE, NoMessage, tasks[o], performance_metrics[o], anomalies[o],
           system_status[o])

\* The reply every handler builds: back to the sender, by id and by role.
ReplyTo(o, message, mtype, content) ==
    NewMessage(NewMessageId, agent_id[o], role[o], message.sender_id,
               message.sender_role, mtype, content, message.message_id)

\* A collector that answers only the task it knows.
DataCollector_handle_task_assignment_Silent(o, message) ==
    LET task == message.content.task
    IN  IF task = "collect_data"
        THEN Returns(o, ReplyTo(o, message, TASK_COMPLETION,
                 [NoContent EXCEPT !.task = task, !.status = "completed",
                                   !.body = "data_summary"]))
        ELSE Returns(o, NoMessage)

\* DataCollectorAgent.handle_task_assignment
DataCollector_handle_task_assignment(o, message) ==
    LET task == message.content.task
    IN  IF task = "collect_data"
        THEN Returns(o, ReplyTo(o, message, TASK_COMPLETION,
                 [NoContent EXCEPT !.task = task, !.status = "completed",
                                   !.body = "data_summary"]))
        ELSE Returns(o, ReplyTo(o, message, RESPONSE,
                 [NoContent EXCEPT !.error = "Unknown task"]))

\* DataCollectorAgent.handle_request
DataCollector_handle_request(o, message) ==
    IF message.content.request_type = "data_source_status"
    THEN Returns(o, ReplyTo(o, message, RESPONSE,
             [NoContent EXCEPT !.body = "data_sources"]))
    ELSE Returns(o, ReplyTo(o, message, RESPONSE,
             [NoContent EXCEPT !.error = "Unknown request type"]))

\* ModelTrainerAgent.handle_task_assignment
ModelTrainer_handle_task_assignment(o, message) ==
    LET task == message.content.task
    IN  IF task = "train_model"
        THEN Returns(o, ReplyTo(o, message, TASK_COMPLETION,
                 [NoContent EXCEPT !.task = task, !.status = "completed",
                                   !.body = "performance"]))
        ELSE Returns(o, ReplyTo(o, message, RESPONSE,
                 [NoContent EXCEPT !.error = "Unknown task"]))

\* ModelTrainerAgent.handle_request
ModelTrainer_handle_request(o, message) ==
    IF message.content.request_type = "model_status"
    THEN Returns(o, ReplyTo(o, message, RESPONSE,
             [NoContent EXCEPT !.body = "models"]))
    ELSE Returns(o, ReplyTo(o, message, RESPONSE,
             [NoContent EXCEPT !.error = "Unknown request type"]))

\* A completion handler that files the record under the message's own id.
handle_task_completion_ByMessageId(o, message) ==
    Effect(FALSE, NoMessage,
           MapSet(tasks[o], message.message_id,
                  [ task |-> message.content.task,
                    status |-> message.content.status,
                    completed_by |-> message.sender_id,
                    assigned_to_role |-> NoRole ]),
           performance_metrics[o], anomalies[o], system_status[o])

\* A completion handler that files the record and acknowledges it.
handle_task_completion_Acknowledging(o, message) ==
    Effect(FALSE,
           ReplyTo(o, message, RESPONSE,
                   [NoContent EXCEPT !.status = "acknowledged"]),
           MapSet(tasks[o], message.in_reply_to,
                  [ task |-> message.content.task,
                    status |-> message.content.status,
                    completed_by |-> message.sender_id,
                    assigned_to_role |-> NoRole ]),
           performance_metrics[o], anomalies[o], system_status[o])

\* CoordinatorAgent.handle_task_completion
handle_task_completion(o, message) ==
    Effect(FALSE, NoMessage,
           MapSet(tasks[o], message.in_reply_to,
                  [ task |-> message.content.task,
                    status |-> message.content.status,
                    completed_by |-> message.sender_id,
                    assigned_to_role |-> NoRole ]),
           performance_metrics[o], anomalies[o], system_status[o])

\* CoordinatorAgent.handle_performance_metric: `metric_type not in
\* self.performance_metrics` hashes metric_type, and raises TypeError when it
\* is a list or a dict.
handle_performance_metric(o, message) ==
    LET metric_type == message.content.metric_type
        old == IF metric_type \in DOMAIN performance_metrics[o]
               THEN performance_metrics[o][metric_type]
               ELSE << >>
    IN  IF metric_type = Unhashable
        THEN Raises(o)
        ELSE Effect(FALSE, NoMessage, tasks[o],
                    MapSet(performance_metrics[o], metric_type,
                           Append(old, [reported_by |-> message.sender_id])),
                    anomalies[o], system_status[o])

\* CoordinatorAgent.handle_anomaly_alert
handle_anomaly_alert(o, message) ==
    Effect(FALSE,
           ReplyTo(o, message, RESPONSE,
                   [NoContent EXCEPT !.status = "acknowledged"]),
           tasks[o], performance_metrics[o],
           Append(anomalies[o],
                  [ type |-> message.content.anomaly_type,
                    reported_by |-> message.sender_id ]),
           system_status[o])

\* CoordinatorAgent.handle_system_status: `self.system_status[component] = ...`
\* hashes component, and raises TypeError when it is a list or a dict.
handle_system_status(o, message) ==
    LET component == message.content.component
    IN  IF component = Unhashable
        THEN Raises(o)
        ELSE Effect(FALSE, NoMessage, tasks[o], performance_metrics[o],
                    anomalies[o],
                    MapSet(system_status[o], component,
                           [ status |-> message.content.status,
                             reported_by |-> message.sender_id ]))

\* The handler registered for the message's type, called.
CallHandler(o, message) ==
    CASE role[o] = DATA_COLLECTOR /\ message.message_type = TASK_ASSIGNMENT ->
            DataCollector_handle_task_assignment(o, message)
      [] role[o] = DATA_COLLECTOR /\ message.message_type = REQUEST ->
            DataCollector_handle_request(o, message)
      [] role[o] = MODEL_TRAINER /\ message.message_type = TASK_ASSIGNMENT ->
            ModelTrainer_handle_task_assignment(o, message)
      [] role[o] = MODEL_TRAINER /\ message.message_type = REQUEST ->
            ModelTrainer_handle_request(o, message)
      [] role[o] = COORDINATOR /\ message.message_type = TASK_COMPLETION ->
            handle_task_completion(o, message)
      [] role[o] = COORDINATOR /\ message.message_type = PERFORMANCE_METRIC ->
            handle_performance_metric(o, message)
      [] role[o] = COORDINATOR /\ message.message_type = ANOMALY_ALERT ->
            handle_anomaly_alert(o, message)
      [] role[o] = COORDINATOR /\ message.message_type = SYSTEM_STATUS ->
            handle_system_status(o, message)

\* Agent.handle_message: the handler's result, as it is (an exception of the
\* handler leaves handle_message); without a handler, None.
handle_message(o, message) ==
    IF message.message_type \in message_handlers(o)
    THEN CallHandler(o, message)
    ELSE Returns(o, NoMessage)

\* publish awaits receive_message of one target after the other with no try:
\* the first call that raises ends the loop, so the targets before it have the
\* message, that one and those after it have not, and publish raises.
Reached(targets) ==
    LET bad == { i \in 1..Len(targets) : targets[i] \in faulty }
    IN  IF bad = {} THEN targets
        ELSE SubSeq(targets, 1, (CHOOSE i \in bad : \A j \in bad : i <= j) - 1)
PublishRaises(message) ==
    \E o \in Range(PublishTargets(message)) : o \in faulty

\* MessageBus.publish(message), on queues, task states and ready queue q0, pc0
\* and r0 (those of the state, or those a run loop has reached in its step).
publish(message, q0, pc0, r0) ==
    LET targets == Reached(PublishTargets(message))
    IN  /\ message_queue' = Deliver(q0, targets, message)
        /\ pc' = Wake(pc0, targets)
        /\ ready' = r0 \o Woken(pc0, targets)
        /\ published' = Append(published, [msg |-> message, to |-> targets])

\* An exception of every task's loop at once, as if the loops shared a task.
RunRaises_AllLoops(o, q0, r0) ==
    /\ pc' = [p \in Objs |->
           IF p = o \/ pc[p] \in {"created", "waiting", "woken"}
           THEN "crashed" ELSE pc[p]]
    /\ cur' = 0
    /\ message_queue' = q0
    /\ ready' = << >>
    /\ UNCHANGED published

\* An exception leaves Agent.run (there is no try in run or handle_message):
\* the task that start_agents created for this agent ends with it, and the
\* event loop goes on with the other tasks.
RunRaises(o, q0, r0) ==
    /\ pc' = [pc EXCEPT ![o] = "crashed"]
    /\ cur' = 0
    /\ message_queue' = q0
    /\ ready' = r0
    /\ UNCHANGED published

\* One turn of Agent.run's loop body: get, handle_message, send_message of the
\* reply if there is one, task_done.  An exception of the handler leaves
\* run(): the task ends with it, and the message it took is gone.
Dispatch(o, r0) ==
    LET message == Head(message_queue[o])
        e == handle_message(o, message)
        q0 == [message_queue EXCEPT ![o] = Tail(@)]
    IN  /\ dispatched' = [dispatched EXCEPT ![o] = Append(@,
               [ message_id |-> message.message_id, raised |-> e.raised,
                 reply |-> e.reply.message_id ])]
        /\ tasks' = [tasks EXCEPT ![o] = e.tasks]
        /\ performance_metrics' =
               [performance_metrics EXCEPT ![o] = e.performance_metrics]
        /\ anomalies' = [anomalies EXCEPT ![o] = e.anomalies]
        /\ system_status' = [system_status EXCEPT ![o] = e.system_status]
        /\ IF e.raised
           THEN RunRaises(o, q0, r0)
           ELSE IF e.reply # NoMessage /\ PublishRaises(e.reply)
           THEN /\ cur' = 0
                /\ publish(e.reply, q0, [pc EXCEPT ![o] = "crashed"], r0)
           ELSE /\ cur' = o
                /\ IF e.reply # NoMessage
                   THEN publish(e.reply, q0, [pc EXCEPT ![o] = "active"], r0)
                   ELSE /\ message_queue' = q0
                        /\ pc' = [pc EXCEPT ![o] = "active"]
                        /\ ready' = r0
                        /\ UNCHANGED published
        /\ UNCHANGED <<running, busVars, clsVars, auxVars, agentVars, sysVars, issued>>

\* Agent.run, first step of the task: self.running = True.
RunStart(o) ==
    /\ cur = 0
    /\ ready # << >> /\ Head(ready) = o
    /\ pc[o] = "created"
    /\ running' = [running EXCEPT ![o] = TRUE]
    /\ pc' = [pc EXCEPT ![o] = "active"]
    /\ cur' = o
    /\ ready' = Tail(ready)
    /\ UNCHANGED <<message_queue, busVars, clsVars, auxVars, agentVars, ledgerVars, sysVars, logVars>>

\* Agent.run, `while self.running` is false: run() returns.
LoopExit(o) ==
    /\ cur = o
    /\ pc[o] = "active"
    /\ ~running[o]
    /\ pc' = [pc EXCEPT ![o] = "done"]
    /\ cur' = 0
    /\ UNCHANGED <<message_queue, running, ready, busVars, clsVars, auxVars, agentVars, ledgerVars,
                   sysVars, logVars>>

\* Agent.run, Queue.get on an empty queue: the task suspends.
LoopSuspend(o) ==
    /\ cur = o
    /\ pc[o] = "active"
    /\ running[o]
    /\ message_queue[o] = << >>
    /\ pc' = [pc EXCEPT ![o] = "waiting"]
    /\ cur' = 0
    /\ UNCHANGED <<message_queue, running, ready, busVars, clsVars, auxVars, agentVars, ledgerVars,
                   sysVars, logVars>>

\* Agent.run, Queue.get on a non-empty queue returns at once.
LoopDispatch(o) ==
    /\ cur = o
    /\ pc[o] = "active"
    /\ running[o]
    /\ message_queue[o] # << >>
    /\ Dispatch(o, ready)

\* Agent.run, the task woken by a put resumes inside Queue.get, which tests
\* the queue again and takes the message; self.running is not read here.
Resume(o) ==
    /\ cur = 0
    /\ ready # << >> /\ Head(ready) = o
    /\ pc[o] = "woken"
    /\ IF message_queue[o] # << >>
       THEN Dispatch(o, Tail(ready))
       ELSE /\ pc' = [pc EXCEPT ![o] = "waiting"]
            /\ ready' = Tail(ready)
            /\ UNCHANGED <<message_queue, running, cur, busVars, clsVars, auxVars, agentVars,
                           ledgerVars, sysVars, logVars>>

\* Agent.stop
stop(o) ==
    running' = [running EXCEPT ![o] = FALSE]

\* assign_task keeping its ledger under one key, the first message id, in
\* place of the id of the message it has just published
assign_task_FirstKey(o, recipient_role, task) ==
    LET message == NewMessage(NewMessageId, agent_id[o], role[o], NoAgent,
                              recipient_role, TASK_ASSIGNMENT, task, NoId)
    IN  /\ publish(message, message_queue, pc, ready)
        /\ tasks' = [tasks EXCEPT ![o] =
               MapSet(@, 1,
                      [ task |-> task.task, status |-> "assigned",
                        completed_by |-> NoAgent,
                        assigned_to_role |-> recipient_role ])]

\* -------------------------------------------------------- CoordinatorAgent
\* CoordinatorAgent.assign_task(recipient_role, task): one step, nothing in
\* it suspends.
assign_task(o, recipient_role, task) ==
    LET message == NewMessage(NewMessageId, agent_id[o], role[o], NoAgent,
                              recipient_role, TASK_ASSIGNMENT, task, NoId)
    IN  /\ publish(message, message_queue, pc, ready)
        /\ tasks' =
               IF PublishRaises(message)
               THEN tasks
               ELSE [tasks EXCEPT ![o] =
                        MapSet(@, message.message_id,
                               [ task |-> task.task, status |-> "assigned",
                                 completed_by |-> NoAgent,
                                 assigned_to_role |-> recipient_role ])]

\* --------------------------------------------------------- MultiAgentSystem
Allocated == { o \in Objs : role[o] # NoRole }
AgentsOf(s) == DictValues(sys_agents[s])

\* The agent has a loop task in its system's list self.tasks.
Started(o) == \E s \in Systems : o \in Range(sys_tasks[s])

\* create_agent with one counter per role.
create_agent_PerRole(s, r, o) ==
    LET n == Cardinality({ a \in Range(AgentsOf(s)) : role[a] = r })
        aid == << r, n + 1 >>
    IN  /\ agent_id' = [agent_id EXCEPT ![o] = aid]
        /\ role' = [role EXCEPT ![o] = r]
        /\ sys_agents' = [sys_agents EXCEPT ![s] = DictSet(@, aid, o)]
        /\ subscribe(o)

\* MultiAgentSystem.create_agent(role): the new agent is object o.
create_agent(s, r, o) ==
    LET aid == << r, Len(sys_agents[s]) + 1 >>
    IN  /\ agent_id' = [agent_id EXCEPT ![o] = aid]
        /\ role' = [role EXCEPT ![o] = r]
        /\ sys_agents' = [sys_agents EXCEPT ![s] = DictSet(@, aid, o)]
        /\ subscribe(o)

\* MultiAgentSystem.start_agents: asyncio.create_task(agent.run()) per agent;
\* the tasks have not run yet when it returns.
start_agents(s) ==
    /\ pc' = [o \in Objs |-> IF o \in Range(AgentsOf(s)) THEN "created" ELSE pc[o]]
    /\ ready' = ready \o AgentsOf(s)
    /\ sys_tasks' = [sys_tasks EXCEPT ![s] = AgentsOf(s)]

\* task.cancel(): a task that has not finished gets CancelledError thrown at
\* the point where it stands (before its first step, or in Queue.get), and
\* ends without running any statement of run(); a finished task is left.
Cancelled(p) == IF p \in {"created", "waiting", "woken"} THEN "cancelled" ELSE p

\* stop_agents that clears the flags and drops the task list, cancelling nothing.
stop_agents_NoCancel(s) ==
    /\ running' = [o \in Objs |->
           IF o \in Range(AgentsOf(s)) THEN FALSE ELSE running[o]]
    /\ pc' = pc
    /\ ready' = ready
    /\ sys_tasks' = [sys_tasks EXCEPT ![s] = << >>]

\* stop_agents that cancels the tasks and drops the list, clearing no flag.
stop_agents_KeepFlags(s) ==
    /\ running' = running
    /\ pc' = [o \in Objs |->
           IF o \in Range(sys_tasks[s]) THEN Cancelled(pc[o]) ELSE pc[o]]
    /\ ready' = SelectSeq(ready, LAMBDA o : o \notin Range(sys_tasks[s]))
    /\ sys_tasks' = [sys_tasks EXCEPT ![s] = << >>]

\* MultiAgentSystem.stop_agents
stop_agents(s) ==
    /\ running' = [o \in Objs |->
           IF o \in Range(AgentsOf(s)) THEN FALSE ELSE running[o]]
    /\ pc' = [o \in Objs |->
           IF o \in Range(sys_tasks[s]) THEN Cancelled(pc[o]) ELSE pc[o]]
    /\ ready' = SelectSeq(ready, LAMBDA o : o \notin Range(sys_tasks[s]))
    /\ sys_tasks' = [sys_tasks EXCEPT ![s] = << >>]

\* ------------------------------------------------------------ initial state
\* No agent exists: the directories as MessageBus.__init__ builds them, the
\* systems' fields as MultiAgentSystem.__init__ builds them.
NoAgents ==
    /\ subscribers = << >>
    /\ role_subscribers = [r \in AgentRole |-> << >>]
    /\ agent_id = [o \in Objs |-> NoAgent]
    /\ role = [o \in Objs |-> NoRole]
    /\ message_queue = [o \in Objs |-> << >>]
    /\ running = [o \in Objs |-> FALSE]
    /\ pc = [o \in Objs |-> "none"]
    /\ cur = 0
    /\ ready = << >>
    /\ tasks = [o \in Objs |-> EmptyMap]
    /\ performance_metrics = [o \in Objs |-> EmptyMap]
    /\ anomalies = [o \in Objs |-> << >>]
    /\ system_status = [o \in Objs |-> EmptyMap]
    /\ sys_agents = [s \in Systems |-> << >>]
    /\ sys_tasks = [s \in Systems |-> << >>]
    /\ published = << >>
    /\ dispatched = [o \in Objs |-> << >>]
    /\ issued = 0

\* A serialized message: every key of WireKeys present or missing, and the
\* values a field can hold, recognized or not.  A missing key has no value;
\* the record holds the first listed one in its place.
WireValues ==
    [ message_id : {NoId, 1},
      sender_id : { <<COORDINATOR, 1>> },
      sender_role : {COORDINATOR, Bogus},
      recipient_id : {NoAgent},
      recipient_role : {None, Empty, DATA_COLLECTOR, Bogus},
      message_type : {TASK_ASSIGNMENT, Bogus},
      content : {NoContent},
      in_reply_to : {NoId},
      timestamp : {IsoDate, None, Bogus} ]
\* The value records that go with the key set K.
ValuesWith(K) ==
    { w \in WireValues :
        /\ "sender_role" \notin K => w.sender_role = COORDINATOR
        /\ "recipient_role" \notin K => w.recipient_role = None
        /\ "message_type" \notin K => w.message_type = TASK_ASSIGNMENT
        /\ "timestamp" \notin K => w.timestamp = IsoDate }
WireData ==
    UNION { { [ keys |-> K ] @@ w : w \in ValuesWith(K) } : K \in SUBSET WireKeys }
\* No serialized message is at hand.
NoData == [ keys |-> {} ]

\* Nothing is being parsed.
\* TorontoAIWeatherAgentSystem.__init__: not running, a MultiAgentSystem
\* without agents
NoApp ==
    /\ app_running = FALSE
    /\ app_agents = 0
    /\ app_role_subscribers = [r \in AgentRole |-> 0]
    /\ app_tasks = 0
    /\ main_loops = 0
    /\ app_reached = << >>

NoAux ==
    /\ data = NoData
    /\ parsed = NotParsed
    /\ stop_mark = [o \in Objs |-> 0]
    /\ faulty = {}
    /\ NoApp

\* The process once its MultiAgentSystem objects are constructed: their
\* __init__ has called MessageBus.get_instance(), which built the bus.
Init ==
    /\ NoAgents
    /\ NoAux
    /\ bus_instance = 1
    /\ buses = {1}

\* The process at its start: MessageBus._instance = None, no bus object.
InitProcess ==
    /\ NoAgents
    /\ NoAux
    /\ bus_instance = NoBus
    /\ buses = {}

\* ------------------------------------------------------------- the callers
\* The cohort the callers create, in their order: run_example's coordinator,
\* data collector and model trainer, then, as initialize has them, an agent
\* of a role without a class of its own and further workers.
Cohort ==
    << COORDINATOR, DATA_COLLECTOR, MODEL_TRAINER, SYSTEM_MONITOR,
       DATA_COLLECTOR, MODEL_TRAINER >>
\* The assignments the task source makes: each worker role's own task (as
\* assign_data_collection_tasks and assign_model_training_tasks do), a task the
\* role does not know, and a payload without the "task" key.
Assignments ==
    { <<DATA_COLLECTOR, [NoContent EXCEPT !.task = "collect_data"]>>,
      <<DATA_COLLECTOR, NoContent>>,
      <<MODEL_TRAINER, [NoContent EXCEPT !.task = "train_model"]>>,
      <<MODEL_TRAINER, [NoContent EXCEPT !.task = "collect_data"]>> }

\* run_example / TorontoAIWeatherAgentSystem.initialize: system.create_agent(role)
CreateAgent(s, r) ==
    /\ cur = 0
    /\ Cardinality(Allocated) < MaxAgents
    /\ sys_tasks[s] = << >>
    /\ create_agent(s, r, Cardinality(Allocated) + 1)
    /\ UNCHANGED <<loopVars, ledgerVars, sys_tasks, logVars, clsVars, auxVars>>

\* TorontoAIWeatherAgentSystem.start (through initialize) / run_example: the
\* callers start the cohort only when no loop task of the system is held
\* (start() returns at once while the system runs, stop() empties the list).
StartAgents(s) ==
    /\ cur = 0
    /\ sys_tasks[s] = << >>
    /\ sys_agents[s] # << >>
    /\ start_agents(s)
    /\ UNCHANGED <<message_queue, running, cur, busVars, clsVars, auxVars, agentVars, ledgerVars,
                   sys_agents, logVars>>

\* TorontoAIWeatherAgentSystem.stop / run_example: system.stop_agents()
StopAgents(s) ==
    /\ cur = 0
    /\ stop_agents(s)
    /\ UNCHANGED <<message_queue, cur, busVars, clsVars, auxVars, agentVars, ledgerVars,
                   sys_agents, logVars>>

\* A caller stops one agent: agent.stop()
AgentStop(o) ==
    /\ cur = 0
    /\ o \in Allocated
    /\ running[o]
    /\ stop(o)
    /\ UNCHANGED <<message_queue, pc, cur, ready, busVars, clsVars, auxVars, agentVars, ledgerVars,
                   sysVars, logVars>>

\* The task source: coordinator.assign_task(role, payload).  Both callers
\* assign only after start_agents (run_example after its start_agents call,
\* main_loop as a task that start() creates after initialize).
AssignTask(o, r, task) ==
    /\ cur = 0
    /\ role[o] = COORDINATOR
    /\ Started(o)
    /\ assign_task(o, r, task)
    /\ issued' = issued + 1
    /\ dispatched' = dispatched
    /\ performance_metrics' = performance_metrics
    /\ anomalies' = anomalies
    /\ system_status' = system_status
    /\ UNCHANGED <<running, cur, busVars, clsVars, auxVars, agentVars, sysVars>>

\* Agent.send_message(message) of agent o, for a message o builds itself.
SendMessage(o, rid, rrole, mtype, content) ==
    /\ cur = 0
    /\ o \in Allocated
    /\ publish(NewMessage(NewMessageId, agent_id[o], role[o], rid, rrole,
                          mtype, content, NoId),
               message_queue, pc, ready)
    /\ issued' = issued + 1
    /\ dispatched' = dispatched
    /\ UNCHANGED <<running, cur, busVars, clsVars, auxVars, agentVars, ledgerVars, sysVars>>

\* The reports agents send to the coordinator role: an anomaly alert, and a
\* performance metric whose metric_type is a string or a list.
Reports ==
    { <<ANOMALY_ALERT, [NoContent EXCEPT !.anomaly_type = "spike"]>>,
      <<PERFORMANCE_METRIC, [NoContent EXCEPT !.metric_type = "latency"]>>,
      <<PERFORMANCE_METRIC, [NoContent EXCEPT !.metric_type = Unhashable]>> }

\* The agents that report: the data collectors.
Reporters == { o \in Objs : role[o] = DATA_COLLECTOR }

\* A caller removes an agent from the bus: MessageBus.unsubscribe(agent_id)
Unsubscribe(aid) ==
    /\ cur = 0
    /\ unsubscribe(aid)
    /\ UNCHANGED <<agentVars, loopVars, ledgerVars, sysVars, logVars, clsVars, auxVars>>

AgentStep(o) ==
    \/ RunStart(o)
    \/ LoopExit(o)
    \/ LoopSuspend(o)
    \/ LoopDispatch(o)
    \/ Resume(o)

\* ---------------------------------------------------------- specifications
\* The life of one system: its cohort is created, started and stopped (and
\* started again), single agents are stopped, the task source assigns tasks,
\* agents report to the coordinator, and the run loops do their work.
Next ==
    \/ CreateAgent(1, Cohort[Cardinality(Allocated) + 1])
    \/ StartAgents(1)
    \/ StopAgents(1)
    \/ \E o \in Objs : AgentStop(o)
    \/ \E o \in Objs, a \in Assignments :
           issued < MaxMessages /\ AssignTask(o, a[1], a[2])
    \/ \E o \in Reporters, m \in Reports :
           issued < MaxMessages /\ SendMessage(o, NoAgent, COORDINATOR, m[1], m[2])
    \/ \E o \in Objs : AgentStep(o)

Spec == Init /\ [][Next]_vars

\* The event loop runs every task that is due.
Fairness == \A o \in Objs : WF_vars(AgentStep(o))
FairSpec == Spec /\ Fairness

\* The bus alone: agents of two roles subscribe (create_agent) and are
\* unsubscribed, and the first agent publishes messages with every kind of
\* address (publish does not read the sender).
BusRoles == { COORDINATOR, DATA_COLLECTOR }
\* "coordinator_0": an id no agent has.
UnknownId == << COORDINATOR, 0 >>
KnownIds == { agent_id[o] : o \in Allocated }

NextBus ==
    \/ \E r \in BusRoles : CreateAgent(1, r)
    \/ \E aid \in KnownIds : Unsubscribe(aid)
    \/ \E rid \in KnownIds \cup {NoAgent, UnknownId},
          rrole \in BusRoles \cup {NoRole} :
           issued < MaxPublishes /\ SendMessage(1, rid, rrole, NOTIFICATION, NoContent)

SpecBus == Init /\ [][NextBus]_vars

\* ------------------------------------------------------------------ claims
\* What a step publishes: the last entry of the log, when the log has grown.
Publishes == Len(published') = Len(published) + 1
LastPublished == published'[Len(published')]
Subscribed == Range(DictValues(subscribers))
\* The copies of message m in agent o's inbox, before and after the step.
Copies(o, m) == Count(message_queue[o], m)
CopiesAfter(o, m) == Count(message_queue'[o], m)
\* A list of agents in the order of their creation, none twice.
InCreationOrder(l) == \A i, j \in 1..Len(l) : i < j => l[i] < l[j]

\* C1: a publish of a message whose recipient_id is in the id directory puts
\* exactly one copy into the inbox of the agent of that id and none into any
\* other inbox, whether or not recipient_role is set as well.
C1_DirectRouting ==
    [][ Publishes =>
          LET m == LastPublished.msg
          IN  (m.recipient_id # NoAgent /\ DictHas(subscribers, m.recipient_id)) =>
                LET A == DictGet(subscribers, m.recipient_id)
                IN  /\ agent_id[A] = m.recipient_id
                    /\ LastPublished.to = << A >>
                    /\ \A o \in Objs :
                         /\ Copies(o, m) = 0
                         /\ CopiesAfter(o, m) = IF o = A THEN 1 ELSE 0
      ]_vars

\* C1's case: a message with both recipient_id and recipient_role set went to
\* the agent of that id alone, while another agent is subscribed under the role.
C1_Witness ==
    \E k \in 1..Len(published) :
        LET m == published[k].msg
        IN  /\ m.recipient_id # NoAgent
            /\ m.recipient_role # NoRole
            /\ Len(published[k].to) = 1
            /\ Count(message_queue[published[k].to[1]], m) = 1
            /\ \E o \in Range(role_subscribers[m.recipient_role]) :
                   /\ o # published[k].to[1]
                   /\ Count(message_queue[o], m) = 0

C3_Broadcast ==
    [][ Publishes =>
          LET m == LastPublished.msg
          IN  (m.recipient_id = NoAgent /\ m.recipient_role = NoRole) =>
                \A o \in Objs :
                    /\ Copies(o, m) = 0
                    /\ CopiesAfter(o, m) = IF o \in Subscribed THEN 1 ELSE 0
      ]_vars

\* C3's case: a broadcast reached agents of two roles, its sender among them,
\* and not an agent that had been unsubscribed.
C3_Witness ==
    \E k \in 1..Len(published) :
        LET m == published[k].msg
        IN  /\ m.recipient_id = NoAgent
            /\ m.recipient_role = NoRole
            /\ \E o, p \in Range(published[k].to) :
                   /\ role[o] # role[p]
                   /\ agent_id[o] = m.sender_id
                   /\ Count(message_queue[o], m) = 1
                   /\ Count(message_queue[p], m) = 1
            /\ \E o \in Allocated :
                   o \notin Subscribed /\ Count(message_queue[o], m) = 0

\* ----------------------------------------------------- the bus as a class
\* A caller calls the constructor: MessageBus()
NewBus ==
    /\ cur = 0
    /\ Cardinality(buses) < MaxBuses
    /\ MessageBus_init
    /\ UNCHANGED <<bus_instance, busVars, agentVars, loopVars, ledgerVars,
                   sysVars, logVars, auxVars>>

\* A caller calls MessageBus.get_instance(), as MultiAgentSystem.__init__ and
\* Agent.send_message do.
GetInstance ==
    /\ cur = 0
    /\ Cardinality(buses) < MaxBuses
    /\ get_instance
    /\ UNCHANGED <<busVars, agentVars, loopVars, ledgerVars, sysVars, logVars,
                   auxVars>>

\* The process from its start: constructor calls, get_instance calls, and,
\* once a system is constructed (its __init__ calls get_instance), its
\* agents and their publishes.
NextSingleton ==
    \/ NewBus
    \/ GetInstance
    \/ \E r \in BusRoles : bus_instance # NoBus /\ CreateAgent(1, r)
    \/ \E rid \in KnownIds \cup {NoAgent}, rrole \in BusRoles \cup {NoRole} :
           issued < MaxPublishes /\ SendMessage(1, rid, rrole, NOTIFICATION, NoContent)

SpecSingleton == InitProcess /\ [][NextSingleton]_vars

\* C18: at most one MessageBus object exists in the process, and it is the
\* one get_instance returns: no constructor call makes a second one.
C18_SingleBus ==
    /\ Cardinality(buses) <= 1
    /\ bus_instance # NoBus => buses = {bus_instance}

\* ------------------------------------------- the bus under any call order
\* The entries of all role lists together.
RoleEntries == Cardinality({ <<r, i>> \in AgentRole \X (1..MaxAgents) :
                                 i <= Len(role_subscribers[r]) })

\* A caller subscribes an agent that exists: MessageBus.subscribe(agent)
Subscribe(o) ==
    /\ cur = 0
    /\ o \in Allocated
    /\ RoleEntries < MaxAgents
    /\ UNCHANGED agentVars
    /\ subscribe(o)
    /\ UNCHANGED <<loopVars, ledgerVars, sysVars, logVars, clsVars, auxVars>>

\* The three ways to address a publish, aimed at the first agent: its id, its
\* role, or nobody (a broadcast).
Probes ==
    { <<agent_id[1], NoRole>>, <<NoAgent, role[1]>>, <<NoAgent, NoRole>> }

\* A system creates its cohort; callers subscribe, unsubscribe and publish in
\* any order.  The cohort stops one short of the role lists' capacity, which
\* leaves room for an agent to stand in a list twice.
NextDir ==
    \/ /\ Cardinality(Allocated) + 1 < MaxAgents
       /\ CreateAgent(1, Cohort[Cardinality(Allocated) + 1])
    \/ \E o \in Objs : Subscribe(o)
    \/ \E aid \in KnownIds \cup {UnknownId} : Unsubscribe(aid)
    \/ \E to \in Probes :
           /\ issued < MaxPublishes
           /\ SendMessage(1, to[1], to[2], NOTIFICATION, NoContent)

SpecDir == Init /\ [][NextDir]_vars

\* ------------------------------------------------------- several systems
\* Every system creates agents of any role, in any interleaving with the
\* other systems, and the agents publish.
NextIds ==
    \/ \E s \in Systems, r \in BusRoles : CreateAgent(s, r)
    \/ \E to \in Probes :
           /\ issued < MaxPublishes
           /\ SendMessage(1, to[1], to[2], NOTIFICATION, NoContent)

SpecIds == Init /\ [][NextIds]_vars

\* ------------------------------------------------- a recipient that fails
\* Some agent objects are of a class whose receive_message raises.
InitFaulty ==
    /\ NoAgents
    /\ bus_instance = 1
    /\ buses = {1}
    /\ data = NoData
    /\ parsed = NotParsed
    /\ stop_mark = [o \in Objs |-> 0]
    /\ faulty \in SUBSET Objs
    /\ NoApp

\* Agents of two roles subscribe and are unsubscribed, and the first agent
\* publishes to an id, to a role, and to all.
NextFaulty ==
    \/ \E r \in BusRoles : CreateAgent(1, r)
    \/ \E aid \in KnownIds : Unsubscribe(aid)
    \/ \E to \in (KnownIds \X {NoRole}) \cup ({NoAgent} \X (BusRoles \cup {NoRole})) :
           /\ issued < MaxPublishes
           /\ SendMessage(1, to[1], to[2], NOTIFICATION, NoContent)

SpecFaulty == InitFaulty /\ [][NextFaulty]_vars

\* ------------------------------------------------- the application object
\* TorontoAIWeatherAgentSystem owns one MultiAgentSystem for its whole life.
\* One start creates twelve agents, more than the object-level specifications
\* hold, so this part keeps the lengths of the lists and not their elements.

\* initialize: the agents it creates, per role
InitializeCohort ==
    [ r \in AgentRole |->
        CASE r = DATA_COLLECTOR -> 3
          [] r \in {DATA_PROCESSOR, MODEL_TRAINER} -> 2
          [] OTHER -> 1 ]

RECURSIVE CountAll(_, _)
CountAll(f, S) ==
    IF S = {} THEN 0
    ELSE LET r == CHOOSE x \in S : TRUE IN f[r] + CountAll(f, S \ {r})

\* initialize(): a create_agent for every member of the cohort, each adding an
\* agent to the system and, by subscribe, to its role's list; then
\* start_agents(), a run() task for every agent the system holds.
App_initialize ==
    /\ app_agents' = app_agents + CountAll(InitializeCohort, AgentRole)
    /\ app_role_subscribers' =
           [r \in AgentRole |-> app_role_subscribers[r] + InitializeCohort[r]]
    /\ app_tasks' = app_agents'

\* start()
App_start ==
    IF app_running
    THEN UNCHANGED appVars
    ELSE /\ app_agents < MaxStarts * CountAll(InitializeCohort, AgentRole)
         /\ app_running' = TRUE
         /\ App_initialize
         /\ main_loops' = main_loops + 1
         /\ UNCHANGED app_reached

\* stop(): stop_agents() stops the agents, cancels and forgets the run()
\* tasks; the agents stay in the system and on the bus.
App_stop ==
    IF ~ app_running
    THEN UNCHANGED appVars
    ELSE /\ app_running' = FALSE
         /\ app_tasks' = 0
         /\ UNCHANGED <<app_agents, app_role_subscribers, main_loops, app_reached>>

\* main_loop, from one test of self.running to the next: a task that finds
\* the flag set assigns its tasks (each assignment to DATA_COLLECTOR is
\* published to the role's list) and sleeps; one that finds it clear returns.
App_main_loop ==
    /\ main_loops > 0
    /\ IF app_running
       THEN /\ Len(app_reached) < MaxCycles
            /\ app_reached' =
                   Append(app_reached, app_role_subscribers[DATA_COLLECTOR])
            /\ UNCHANGED <<app_running, app_agents, app_role_subscribers,
                           app_tasks, main_loops>>
       ELSE /\ main_loops' = main_loops - 1
            /\ UNCHANGED <<app_running, app_agents, app_role_subscribers,
                           app_tasks, app_reached>>

\* The callers of start() and stop(), and the event loop running a main_loop
\* task; none of them touches what the object-level part describes.
AppStart ==
    /\ App_start
    /\ UNCHANGED <<busVars, agentVars, loopVars, ledgerVars, sysVars, logVars,
                   clsVars, wireVars, stopVars, faultVars>>
AppStop ==
    /\ App_stop
    /\ UNCHANGED <<busVars, agentVars, loopVars, ledgerVars, sysVars, logVars,
                   clsVars, wireVars, stopVars, faultVars>>
AppMainLoop ==
    /\ App_main_loop
    /\ UNCHANGED <<busVars, agentVars, loopVars, ledgerVars, sysVars, logVars,
                   clsVars, wireVars, stopVars, faultVars>>

NextApp ==
    \/ AppStart
    \/ AppStop
    \/ AppMainLoop

SpecApp == Init /\ [][NextApp]_vars

\* ------------------------------------------------------ every kind of party
\* One agent of each kind of handler table: a coordinator, a bare Agent
\* (no handler), and the two workers.
Parties == << COORDINATOR, SYSTEM_MONITOR, DATA_COLLECTOR, MODEL_TRAINER >>
\* What each kind of party sends, as <<sender role, recipient role, type,
\* content>>: the bare agent and the collector alert the coordinator, and
\* the trainer asks the collector; each is answered to its sender.
Openers ==
    { <<SYSTEM_MONITOR, COORDINATOR, ANOMALY_ALERT,
        [NoContent EXCEPT !.anomaly_type = "spike"]>>,
      <<DATA_COLLECTOR, COORDINATOR, ANOMALY_ALERT,
        [NoContent EXCEPT !.anomaly_type = "spike"]>>,
      <<MODEL_TRAINER, DATA_COLLECTOR, REQUEST,
        [NoContent EXCEPT !.request_type = "data_source_status"]>> }

\* The parties are created and started, and the coordinator is stopped; the
\* parties send their openers and the coordinator assigns the collectors'
\* task; the run loops answer.
NextReply ==
    \/ CreateAgent(1, Parties[Cardinality(Allocated) + 1])
    \/ StartAgents(1)
    \/ \E o \in Objs : role[o] = COORDINATOR /\ AgentStop(o)
    \/ \E o \in Objs, m \in Openers :
           /\ issued < MaxMessages
           /\ role[o] = m[1]
           /\ SendMessage(o, NoAgent, m[2], m[3], m[4])
    \/ \E o \in Objs :
           /\ issued < MaxMessages
           /\ AssignTask(o, DATA_COLLECTOR, [NoContent EXCEPT !.task = "collect_data"])
    \/ \E o \in Objs : AgentStep(o)

SpecReply == Init /\ [][NextReply]_vars

\* ------------------------------------------------------ stop() on record
\* A caller stops one agent whose loop task exists, agent.stop(), at any
\* point of the task's life; the record keeps how many messages had been
\* published by then.
StopRequest(o) ==
    /\ cur = 0
    /\ Started(o)
    /\ stop_mark[o] = 0
    /\ stop(o)
    /\ stop_mark' = [stop_mark EXCEPT ![o] = Len(published) + 1]
    /\ UNCHANGED <<message_queue, pc, cur, ready, busVars, clsVars, wireVars,
                   faultVars, appVars, agentVars, ledgerVars, sysVars, logVars>>

\* One system: its cohort is created and started, agents are stopped one by
\* one, the task source assigns, agents report, and the run loops work.
NextStop ==
    \/ CreateAgent(1, Cohort[Cardinality(Allocated) + 1])
    \/ StartAgents(1)
    \/ \E o \in Objs : StopRequest(o)
    \/ \E o \in Objs, a \in Assignments :
           issued < MaxMessages /\ AssignTask(o, a[1], a[2])
    \/ \E o \in Reporters, m \in Reports :
           issued < MaxMessages /\ SendMessage(o, NoAgent, COORDINATOR, m[1], m[2])
    \/ \E o \in Objs : AgentStep(o)

SpecStop == Init /\ [][NextStop]_vars

\* ------------------------------------------------------------ the parser
\* A caller holds some serialized message.
InitParse ==
    /\ NoAgents
    /\ bus_instance = 1
    /\ buses = {1}
    /\ data \in WireData
    /\ parsed = NotParsed
    /\ stop_mark = [o \in Objs |-> 0]
    /\ faulty = {}
    /\ NoApp

\* The caller parses it: Message.from_dict(data)
Parse ==
    /\ parsed = NotParsed
    /\ parsed' = from_dict(data)
    /\ UNCHANGED <<data, busVars, agentVars, loopVars, ledgerVars, sysVars,
                   logVars, clsVars, stopVars, faultVars, appVars>>

NextParse == Parse

SpecParse == InitParse /\ [][NextParse]_vars

\* ------------------------------------------------ completions sent directly
\* Ids of assignments made outside the run: no message of the run has them.
ForeignIds == (MaxMessages + 1)..(2 * MaxMessages)
\* The agents other than coordinators.
Workers == { o \in Allocated : role[o] # COORDINATOR }

\* A worker reports a task done: Agent.send_message of a TASK_COMPLETION to
\* the coordinators, answering assignment reply_to.
SendCompletion(o, reply_to, status) ==
    /\ cur = 0
    /\ o \in Allocated
    /\ publish(NewMessage(NewMessageId, agent_id[o], role[o], NoAgent, COORDINATOR,
                          TASK_COMPLETION,
                          [NoContent EXCEPT !.task = "collect_data",
                                            !.status = status],
                          reply_to),
               message_queue, pc, ready)
    /\ issued' = issued + 1
    /\ dispatched' = dispatched
    /\ UNCHANGED <<running, cur, busVars, clsVars, auxVars, agentVars, ledgerVars, sysVars>>

\* A coordinator and workers that report completions; no assign_task.
NextLedger ==
    \/ CreateAgent(1, Cohort[Cardinality(Allocated) + 1])
    \/ StartAgents(1)
    \/ \E o \in Objs : AgentStop(o)
    \/ \E o \in Workers, t \in ForeignIds, st \in {"completed", "failed"} :
           issued < MaxMessages /\ SendCompletion(o, t, st)
    \/ \E o \in Objs : AgentStep(o)

SpecLedger == Init /\ [][NextLedger]_vars

\* The TASK_COMPLETION messages coordinator c has processed, as indices of
\* its dispatch log.
Completions(c) ==
    { i \in 1..Len(dispatched[c]) :
        published[dispatched[c][i].message_id].msg.message_type = TASK_COMPLETION }
CompletionMsg(c, i) == published[dispatched[c][i].message_id].msg

\* C11: when the TASK_COMPLETION messages a coordinator has processed have
\* pairwise distinct in_reply_to values and no assignment was made, its task
\* ledger holds exactly one entry per processed message, under its
\* in_reply_to, with the message's status and sender; and the coordinator
\* has published nothing.
C11_LedgerAccumulates ==
    \A c \in Objs :
        ( /\ role[c] = COORDINATOR
          /\ \A k \in 1..Len(published) :
                 published[k].msg.message_type # TASK_ASSIGNMENT
          /\ \A i, j \in Completions(c) :
                 i # j => CompletionMsg(c, i).in_reply_to # CompletionMsg(c, j).in_reply_to )
        => /\ DOMAIN tasks[c] = { CompletionMsg(c, i).in_reply_to : i \in Completions(c) }
           /\ Cardinality(DOMAIN tasks[c]) = Cardinality(Completions(c))
           /\ \A i \in Completions(c) :
                  LET m == CompletionMsg(c, i)
                  IN  /\ tasks[c][m.in_reply_to].status = m.content.status
                      /\ tasks[c][m.in_reply_to].completed_by = m.sender_id
                      /\ tasks[c][m.in_reply_to].task = m.content.task
                      /\ ~ dispatched[c][i].raised
                      /\ dispatched[c][i].reply = NoId
           /\ \A k \in 1..Len(published) :
                  published[k].msg.sender_id # agent_id[c]

\* C11's case: a coordinator has processed two completions with different
\* in_reply_to, from different workers and with different statuses.
C11_Witness ==
    \E c \in Objs : \E i, j \in Completions(c) :
        /\ role[c] = COORDINATOR
        /\ CompletionMsg(c, i).in_reply_to # CompletionMsg(c, j).in_reply_to
        /\ CompletionMsg(c, i).sender_id # CompletionMsg(c, j).sender_id
        /\ CompletionMsg(c, i).content.status # CompletionMsg(c, j).content.status
        /\ Cardinality(DOMAIN tasks[c]) = 2

\* ------------------------------------------------- claims about the loops
\* No task is executing and none is due: nothing happens until a caller acts.
Quiescent == cur = 0 /\ ready = << >>
\* The agent has no loop task, or its loop task has ended.
LoopOver(o) == pc[o] \in {"none", "done", "crashed", "cancelled"}
\* A step of the agent's loop task is executing or due.
StepDue(o) == cur = o \/ o \in Range(ready)
Msg(k) == published[k].msg
Last(l) == l[Len(l)]
\* The step dispatches a message of agent o's inbox.
Dispatches(o) == Len(dispatched'[o]) = Len(dispatched[o]) + 1
\* The replies that agent o has published to message k.
Replies(o, k) ==
    { j \in 1..Len(published) :
        Msg(j).in_reply_to = k /\ Msg(j).sender_id = agent_id[o] }
\* The task name whose assignment a worker role carries out.
KnownTask(r) ==
    CASE r = DATA_COLLECTOR -> "collect_data"
      [] r = MODEL_TRAINER -> "train_model"
      [] OTHER -> "no task"

\* The ANOMALY_ALERT messages delivered to agent c's inbox.
AlertsTo(c) ==
    { k \in 1..Len(published) :
        Msg(k).message_type = ANOMALY_ALERT /\ c \in Range(published[k].to) }
\* The acknowledgements of alert k that agent c has published to its sender.
Acks(c, k) ==
    { j \in Replies(c, k) :
        /\ Msg(j).message_type = RESPONSE
        /\ Msg(j).content.status = "acknowledged"
        /\ Msg(j).recipient_id = Msg(k).sender_id }

\* C4: every ANOMALY_ALERT delivered to a coordinator's inbox leads to exactly
\* one acknowledging RESPONSE to its sender and one record in the anomalies
\* list.  Stated for a coordinator that is started and not stopped, once
\* nothing more is due: every alert delivered has then been acknowledged.
C4_AlertAcknowledged ==
    \A c \in Objs :
        (role[c] = COORDINATOR /\ Started(c) /\ running[c] /\ Quiescent) =>
            /\ \A k \in AlertsTo(c) : Cardinality(Acks(c, k)) = 1
            /\ Len(anomalies[c]) = Cardinality(AlertsTo(c))

\* C5: after stop() the run loop exits, with an empty inbox and no further
\* message.  The loop reaches its exit only by taking steps, so as long as the
\* loop of an agent whose flag is cleared has not ended, a step of it is due.
C5_StopEndsLoop ==
    \A o \in Objs : (~ running[o] /\ ~ LoopOver(o)) => StepDue(o)

\* C6: while a system holds no loop tasks (stop_agents has emptied the list),
\* no agent of it dispatches a message to a handler or publishes a reply.
C6_NoDispatchAfterStopAgents ==
    [][ \A s \in Systems : sys_tasks[s] = << >> =>
          \A o \in Range(AgentsOf(s)) :
              /\ dispatched'[o] = dispatched[o]
              /\ Publishes =>
                     \/ LastPublished.msg.sender_id # agent_id[o]
                     \/ LastPublished.msg.in_reply_to = NoId
      ]_vars

\* C6's case: after stop_agents, with nothing due, a cancelled agent that had
\* dispatched before holds a message in its inbox.
C6_Witness ==
    /\ Quiescent
    /\ sys_tasks[1] = << >>
    /\ \E o \in Range(AgentsOf(1)) :
           /\ pc[o] = "cancelled"
           /\ ~ running[o]
           /\ dispatched[o] # << >>
           /\ message_queue[o] # << >>

\* C7: the assignment of a worker role's own task, by a started coordinator
\* to at least one started worker, ends with the coordinator's ledger entry
\* for its message id "completed" by a worker of the role.  Stated for agents
\* that are not stopped, once nothing more is due.
C7_AssignmentCompleted ==
    \A c \in Objs, k \in 1..Len(published) :
        ( /\ Quiescent
          /\ role[c] = COORDINATOR /\ Started(c) /\ running[c]
          /\ Msg(k).message_type = TASK_ASSIGNMENT
          /\ Msg(k).sender_id = agent_id[c]
          /\ Msg(k).content.task = KnownTask(Msg(k).recipient_role)
          /\ published[k].to # << >>
          /\ \A w \in Range(published[k].to) : Started(w) /\ running[w] )
        => /\ k \in DOMAIN tasks[c]
           /\ tasks[c][k].status = "completed"
           /\ \E w \in Range(published[k].to) :
                  /\ role[w] = Msg(k).recipient_role
                  /\ tasks[c][k].completed_by = agent_id[w]

\* The handler registered for message m in agent o raises.
HandlerRaises(o, m) ==
    m.message_type \in message_handlers(o) /\ CallHandler(o, m).raised

\* C8: when the handler of the message an agent dispatches raises,
\* handle_message returns no reply instead of raising, nothing is published,
\* and the run loop goes on.
C8_HandlerFailureCaught ==
    [][ \A o \in Objs :
          (Dispatches(o) /\ HandlerRaises(o, Head(message_queue[o]))) =>
              /\ ~ Last(dispatched'[o]).raised
              /\ Last(dispatched'[o]).reply = NoId
              /\ published' = published
              /\ pc'[o] = "active"
              /\ cur' = o
      ]_vars

\* The step ends agent o's loop task with an exception.
Crashes(o) == pc[o] # "crashed" /\ pc'[o] = "crashed"
\* Nothing in an agent's inbox is stranded: its loop task is executing, due
\* to run, over, or suspended on an empty inbox.
GoesOn(p) ==
    /\ pc[p] \in {"created", "woken"} => p \in Range(ready)
    /\ pc[p] = "active" => cur = p
    /\ pc[p] = "waiting" => message_queue[p] = << >>

\* C9: a handler failure in one agent leaves every other agent's loop task,
\* flag, inbox and place among the due tasks as they were and hands the
\* event loop on; while an agent's loop has failed, every other agent's
\* loop goes on with its inbox.
C9_FailureIsolated ==
    /\ [][ \A o \in Objs : Crashes(o) =>
             /\ cur' = 0
             /\ ready' = SelectSeq(ready, LAMBDA p : p # o)
             /\ \A p \in Objs \ {o} :
                    /\ pc'[p] = pc[p]
                    /\ running'[p] = running[p]
                    /\ message_queue'[p] = message_queue[p]
                    /\ dispatched'[p] = dispatched[p]
         ]_vars
    /\ [](\A o \in Objs : pc[o] = "crashed" => \A p \in Objs \ {o} : GoesOn(p))

\* C9's case: one agent's loop has failed, and another agent, whose reply
\* is published, is executing its loop.
C9_Witness ==
    \E o, p \in Objs :
        /\ pc[o] = "crashed"
        /\ Last(dispatched[o]).raised
        /\ pc[p] = "active" /\ cur = p
        /\ dispatched[p] # << >>
        /\ Last(dispatched[p]).reply = Len(published)

\* The assignments that worker o has dispatched and whose task is not its
\* role's own, as indices of its dispatch log.
UnknownTasks(o) ==
    { i \in 1..Len(dispatched[o]) :
        LET m == Msg(dispatched[o][i].message_id)
        IN  /\ role[o] \in {DATA_COLLECTOR, MODEL_TRAINER}
            /\ m.message_type = TASK_ASSIGNMENT
            /\ m.content.task # KnownTask(role[o]) }

\* C10: a TASK_ASSIGNMENT that a data collector or model trainer dispatches
\* and whose task is not the role's own (or is absent) does not raise and
\* yields exactly one reply: a RESPONSE with content {error: "Unknown task"},
\* to the assignment's sender, with in_reply_to the assignment's id.
C10_UnknownTaskAnswered ==
    \A o \in Objs : \A i \in UnknownTasks(o) :
        LET d == dispatched[o][i]
        IN  /\ ~ d.raised
            /\ Replies(o, d.message_id) = { d.reply }
            /\ Msg(d.reply).message_type = RESPONSE
            /\ Msg(d.reply).content = [NoContent EXCEPT !.error = "Unknown task"]
            /\ Msg(d.reply).recipient_id = Msg(d.message_id).sender_id
            /\ Msg(d.reply).in_reply_to = d.message_id

\* C10's case: a data collector has answered an assignment without a task,
\* and a model trainer an assignment of a task that is not its own.
C10_Witness ==
    \E o, p \in Objs :
        /\ role[o] = DATA_COLLECTOR /\ role[p] = MODEL_TRAINER
        /\ \E i \in UnknownTasks(o) :
               /\ Msg(dispatched[o][i].message_id).content.task = None
               /\ dispatched[o][i].reply # NoId
        /\ \E i \in UnknownTasks(p) :
               /\ Msg(dispatched[p][i].message_id).content.task = "collect_data"
               /\ dispatched[p][i].reply # NoId

\* --------------------------------------------- claims about lost messages
\* C12: assign_task to a role without subscribed agents puts the message into
\* no inbox, and the coordinator's ledger gains one entry for the message's
\* id, with status "assigned"; that entry stays "assigned" in every later
\* step.
C12_AssignToEmptyRole ==
    [][ /\ ( /\ Publishes
             /\ LastPublished.msg.message_type = TASK_ASSIGNMENT
             /\ role_subscribers[LastPublished.msg.recipient_role] = << >> )
           => LET m == LastPublished.msg
              IN  /\ message_queue' = message_queue
                  /\ \A c \in Objs : agent_id[c] = m.sender_id =>
                         /\ m.message_id \notin DOMAIN tasks[c]
                         /\ DOMAIN tasks'[c] = DOMAIN tasks[c] \cup {m.message_id}
                         /\ tasks'[c][m.message_id].status = "assigned"
        /\ \A c \in Objs, k \in 1..Len(published) :
               ( /\ Msg(k).message_type = TASK_ASSIGNMENT
                 /\ Msg(k).sender_id = agent_id[c]
                 /\ published[k].to = << >> )
               => /\ k \in DOMAIN tasks'[c]
                  /\ tasks'[c][k].status = "assigned"
      ]_vars

\* C12's case: nothing is due, the loops have run, and an assignment to a
\* role without agents is still "assigned" while a worker of another role
\* holds nothing.
C12_Witness ==
    /\ Quiescent
    /\ \E c, w \in Objs, k \in 1..Len(published) :
           /\ Msg(k).message_type = TASK_ASSIGNMENT
           /\ Msg(k).sender_id = agent_id[c]
           /\ role_subscribers[Msg(k).recipient_role] = << >>
           /\ published[k].to = << >>
           /\ tasks[c][k].status = "assigned"
           /\ pc[c] = "waiting"
           /\ role[w] = DATA_COLLECTOR /\ pc[w] = "waiting"
           /\ message_queue[w] = << >> /\ dispatched[w] = << >>

\* C13: a publish of a message whose recipient_id is not in the id directory
\* puts the message into no inbox, whether or not recipient_role is set, and
\* leaves both directories as they were.
C13_UnknownRecipientDropped ==
    [][ ( /\ Publishes
          /\ LastPublished.msg.recipient_id # NoAgent
          /\ ~ DictHas(subscribers, LastPublished.msg.recipient_id) )
        => /\ message_queue' = message_queue
           /\ subscribers' = subscribers
           /\ role_subscribers' = role_subscribers
           /\ LastPublished.to = << >>
      ]_vars

\* C13's case: a message to an id that is not in the directory, with a role
\* that has a subscribed agent, was published, and every inbox is empty.
C13_Witness ==
    \E k \in 1..Len(published) :
        /\ Msg(k).recipient_id # NoAgent
        /\ ~ DictHas(subscribers, Msg(k).recipient_id)
        /\ Msg(k).recipient_role # NoRole
        /\ role_subscribers[Msg(k).recipient_role] # << >>
        /\ \A o \in Objs : message_queue[o] = << >>

\* ------------------------------------------------- claims about ordering
\* The ids of the messages publish has put into agent o's inbox, in the
\* order of the publishes.
Enqueued(o) ==
    SelectSeq([k \in 1..Len(published) |-> k],
              LAMBDA k : o \in Range(published[k].to))
\* The ids of the messages agent o's loop has dispatched, in that order, and
\* of those still in its inbox.
DispatchedIds(o) == [i \in 1..Len(dispatched[o]) |-> dispatched[o][i].message_id]
QueuedIds(o) == [i \in 1..Len(message_queue[o]) |-> message_queue[o][i].message_id]

\* C14: every agent dispatches the messages of its inbox in the order in
\* which publish enqueued them: what it has dispatched, followed by what is
\* still queued, is the sequence of the publishes that reached it.
C14_FifoPerRecipient ==
    \A o \in Objs : DispatchedIds(o) \o QueuedIds(o) = Enqueued(o)

\* C14's case: an agent has dispatched two messages of different senders,
\* and a further message waits in an inbox.
C14_Witness ==
    \E o \in Objs :
        /\ Len(dispatched[o]) >= 2
        /\ Msg(dispatched[o][1].message_id).sender_id
               # Msg(dispatched[o][2].message_id).sender_id
        /\ \E p \in Objs : message_queue[p] # << >>

\* C15: every message published (the coordinator's assignments, the agents'
\* reports, and every reply a handler builds) has at most one of
\* recipient_id and recipient_role set.
C15_OneRecipientField ==
    \A k \in 1..Len(published) :
        Msg(k).recipient_id = NoAgent \/ Msg(k).recipient_role = NoRole

\* ------------------------------------------- claims about the directories
\* The two directories agree: one slot per id, every agent of the id directory
\* once in the list of its own role and in no other list, and nobody in a
\* role list who is not in the id directory.
DirConsistent ==
    /\ \A i, j \in 1..Len(subscribers) :
           subscribers[i][1] = subscribers[j][1] => i = j
    /\ \A o \in Subscribed, r \in AgentRole :
           Count(role_subscribers[r], o) = IF r = role[o] THEN 1 ELSE 0
    /\ \A r \in AgentRole : Range(role_subscribers[r]) \subseteq Subscribed

\* The step subscribes agent o: o is appended to the list of its role.
SubscribedNow(o) ==
    /\ role'[o] # None
    /\ role_subscribers'[role'[o]] = Append(role_subscribers[role'[o]], o)
\* The step subscribes an agent whose id the id directory already holds.
Resubscribes ==
    \E o \in Objs : SubscribedNow(o) /\ DictHas(subscribers, agent_id'[o])

\* C16 as stated: the directories agree after any sequence of subscribe and
\* unsubscribe calls.
C16_DirectoriesAgree == DirConsistent

\* C16, amended: the directories agree at the start and every subscribe or
\* unsubscribe call keeps them in agreement, except a subscribe of an agent
\* whose id is already in the id directory.
C16_AgreeUnlessResubscribed ==
    /\ DirConsistent
    /\ [][ (DirConsistent /\ ~Resubscribes) => DirConsistent' ]_vars

\* An agent was unsubscribed and subscribed again: the directories agree and
\* the id directory is no longer in creation order.
C16_Witness ==
    /\ DirConsistent
    /\ Len(subscribers) >= 2
    /\ ~InCreationOrder(DictValues(subscribers))

\* Agent o is in neither directory.
InNoDirectory(o) ==
    /\ o \notin Subscribed
    /\ \A r \in AgentRole : o \notin Range(role_subscribers[r])
\* A publish puts nothing into the inbox of an agent in neither directory.
NothingToOutsiders ==
    Publishes => \A o \in Objs :
        InNoDirectory(o) => message_queue'[o] = message_queue[o]
\* unsubscribe of an id the id directory lacks returns and changes nothing.
UnknownIdNoOp ==
    \A aid \in KnownIds \cup {UnknownId} :
        ~DictHas(subscribers, aid) =>
            /\ ENABLED Unsubscribe(aid)
            /\ ~ENABLED (Unsubscribe(aid) /\ busVars' # busVars)

\* C17 as stated: after unsubscribe(agent_id) the agent is in neither
\* directory and no later publish reaches its inbox; an unknown id is a no-op.
C17_UnsubscribedEverywhere ==
    /\ [][ \A aid \in KnownIds :
               (Unsubscribe(aid) /\ DictHas(subscribers, aid)) =>
                   LET a == DictGet(subscribers, aid)
                   IN  /\ a \notin Range(DictValues(subscribers'))
                       /\ \A r \in AgentRole : a \notin Range(role_subscribers'[r])
          ]_vars
    /\ [][NothingToOutsiders]_vars
    /\ [](UnknownIdNoOp)

\* C17, amended: unsubscribe(agent_id) of a known id removes the id's entry
\* and one occurrence of the agent from the list of its role; an agent that
\* stood there once is then in neither directory, and no publish reaches the
\* inbox of an agent in neither directory; an unknown id is a no-op.
C17_UnsubscribeRemovesOne ==
    /\ [][ \A aid \in KnownIds :
               (Unsubscribe(aid) /\ DictHas(subscribers, aid)) =>
                   LET a == DictGet(subscribers, aid)
                       n == Count(role_subscribers[role[a]], a)
                   IN  /\ ~DictHas(subscribers', aid)
                       /\ Count(role_subscribers'[role[a]], a) = n - 1
                       /\ n = 1 =>
                              /\ a \notin Range(DictValues(subscribers'))
                              /\ \A r \in AgentRole :
                                     a \notin Range(role_subscribers'[r])
          ]_vars
    /\ [][NothingToOutsiders]_vars
    /\ [](UnknownIdNoOp)

\* An unsubscribed agent got no copy of a broadcast that reached another.
C17_Witness ==
    \E o \in Allocated, k \in 1..Len(published) :
        /\ InNoDirectory(o)
        /\ message_queue[o] = << >>
        /\ Msg(k).recipient_id = NoAgent
        /\ Msg(k).recipient_role = NoRole
        /\ published[k].to # << >>

\* ------------------------------------------------------ claims about ids
\* C19: within each system the agents' ids are pairwise distinct, the k-th
\* agent the system created has the id <role value>_k whatever the roles of
\* the agents before it, so every system numbers from 1; no created agent is
\* missing from its system's directory.
C19_IdsByCreationOrder ==
    /\ \A s \in Systems :
           LET l == AgentsOf(s)
           IN  /\ InCreationOrder(l)
               /\ \A k \in 1..Len(l) :
                      /\ agent_id[l[k]] = << role[l[k]], k >>
                      /\ sys_agents[s][k][1] = agent_id[l[k]]
               /\ \A i, j \in 1..Len(l) :
                      agent_id[l[i]] = agent_id[l[j]] => i = j
    /\ Cardinality(UNION { Range(AgentsOf(s)) : s \in Systems })
           = Cardinality(Allocated)

\* A system has created two agents of different roles, and another system
\* created its first agent after that system's first: its id ends in 1.
C19_Witness ==
    \E s, t \in Systems :
        /\ s # t
        /\ Len(AgentsOf(s)) >= 2
        /\ role[AgentsOf(s)[1]] # role[AgentsOf(s)[2]]
        /\ Len(AgentsOf(t)) >= 1
        /\ AgentsOf(t)[1] > AgentsOf(s)[1]
        /\ agent_id[AgentsOf(t)[1]][2] = 1

\* ------------------------------------------------- claims about stopping twice
\* C20: while a system holds no loop tasks (stop_agents has emptied the list),
\* every agent of it has its flag cleared and no loop that could run, and a
\* further stop_agents call returns and changes nothing.
C20_SecondStopSafe ==
    \A s \in Systems : sys_tasks[s] = << >> =>
        /\ \A o \in Range(AgentsOf(s)) :
               /\ ~ running[o]
               /\ pc[o] \in {"none", "done", "crashed", "cancelled"}
        /\ cur = 0 =>
               /\ ENABLED StopAgents(s)
               /\ ~ ENABLED (StopAgents(s) /\ vars' # vars)

\* After stop_agents: a cancelled agent of the stopped system holds a message
\* it has not dispatched, and stop_agents can be called again.
C20_Witness ==
    /\ cur = 0
    /\ sys_tasks[1] = << >>
    /\ \E o \in Range(AgentsOf(1)) :
           /\ pc[o] = "cancelled"
           /\ message_queue[o] # << >>
    /\ \E o \in Range(AgentsOf(1)) : pc[o] \in {"done", "crashed"}

\* ------------------------------------------------ claims about the parser
\* The serialized message lacks the message-type key, or its type, sender
\* role or recipient role is a value the enumerations do not have.
Malformed(d) ==
    \/ "message_type" \notin d.keys
    \/ d.message_type \notin MessageType
    \/ "sender_role" \in d.keys /\ d.sender_role \notin AgentRole
    \/ "recipient_role" \in d.keys /\ d.recipient_role \notin AgentRole \cup {None}

\* C21: parsing a serialized message that lacks the message-type key, or whose
\* type, sender role or recipient role is not a recognized value, fails with
\* MalformedMessageError and gives no Message.
C21_MalformedRejected ==
    (parsed # NotParsed /\ Malformed(data)) =>
        parsed = Raised("MalformedMessageError")

\* -------------------------------------------------- claims about stop()
\* Message k was enqueued to agent o after stop() was called on o.
AfterStop(o, k) == stop_mark[o] # 0 /\ k >= stop_mark[o]

\* C22: a message enqueued to an agent after stop() was called on it is never
\* dispatched to a handler, and so produces no reply.
C22_NoDispatchAfterStop ==
    \A o \in Objs : \A i \in 1..Len(dispatched[o]) :
        ~ AfterStop(o, dispatched[o][i].message_id)

\* C30: once stop() has been called on an agent, its running flag is false.
C30_StopNotLost ==
    \A o \in Objs : stop_mark[o] # 0 => ~ running[o]

\* ------------------------------------------------ claims about the ledgers
\* The four ledgers of coordinator c.
Ledgers(c) == << tasks[c], performance_metrics[c], anomalies[c], system_status[c] >>

\* C23: a coordinator's ledgers are touched only by the coordinator's own
\* run-loop task: every step that changes a ledger is a step in which that
\* coordinator's loop dispatches a message to a handler.
C23_LedgersOwnTask ==
    [][ \A c \in Objs : Ledgers(c)' # Ledgers(c) => Dispatches(c) ]_vars

\* ------------------------------------------------ claims about replies
\* The dispatch records of all agents, and the messages handlers produced.
DispatchRecords == UNION { Range(dispatched[o]) : o \in Objs }
HandlerMade == { d.reply : d \in DispatchRecords } \ {NoId}
\* The deliveries of the messages no handler produced.
OpeningDeliveries ==
    { <<k, i>> \in (1..Len(published)) \X (1..MaxAgents) :
        k \notin HandlerMade /\ i <= Len(published[k].to) }

TwiceSubscribed(o) ==
    /\ role[o] # NoRole
    /\ DictHas(subscribers, agent_id[o])
    /\ DictGet(subscribers, agent_id[o]) = o
    /\ Count(role_subscribers[role[o]], o) = 2
\* The id directory's slots for agent o's id.
SlotsOf(o) == { i \in 1..Len(subscribers) : subscribers[i][1] = agent_id[o] }

\* C25: a second subscribe of a subscribed agent leaves one id-directory slot
\* for its id and the agent twice in its role list; a publish to its role
\* then puts two copies into its inbox, a publish to its id and a broadcast
\* one copy each.
C25_TwiceSubscribed ==
    /\ [](\A o \in Objs :
              ( /\ role[o] # NoRole
                /\ DictHas(subscribers, agent_id[o])
                /\ Count(role_subscribers[role[o]], o) = 1 )
              => ~ ENABLED ( /\ Subscribe(o)
                             /\ ~ ( /\ Cardinality(SlotsOf(o)') = 1
                                    /\ Count(role_subscribers'[role[o]], o) = 2 ) ))
    /\ [][ Publishes => \A o \in Objs : TwiceSubscribed(o) =>
              LET m == LastPublished.msg
              IN  CopiesAfter(o, m) =
                      IF m.recipient_id # NoAgent
                      THEN (IF m.recipient_id = agent_id[o] THEN 1 ELSE 0)
                      ELSE IF m.recipient_role # NoRole
                           THEN (IF m.recipient_role = role[o] THEN 2 ELSE 0)
                           ELSE 1
          ]_vars

\* An agent subscribed twice holds two copies of a message sent to its role.
C25_Witness ==
    \E o \in Objs, k \in 1..Len(published) :
        /\ TwiceSubscribed(o)
        /\ Msg(k).recipient_id = NoAgent
        /\ Msg(k).recipient_role = role[o]
        /\ Count(message_queue[o], Msg(k)) = 2

\* ------------------------------------------ claims about failed deliveries
\* C26: in a publish to a role or to all, every target whose receive_message
\* does not raise gets the message, whichever other target's raises.
C26_FailureSkipsOne ==
    [][ Publishes =>
          LET m == LastPublished.msg
          IN  \A o \in Range(PublishTargets(m)) \ faulty : CopiesAfter(o, m) >= 1
      ]_vars

\* --------------------------------------- claims about assignment and completion
\* C27: once the coordinator has recorded a completion with status "completed"
\* for an assignment's message id, the ledger entry of that id is never
\* "assigned" again, however assign_task calls and the run loops interleave.
C27_CompletedStays ==
    \A c \in Objs : \A i \in Completions(c) :
        LET m == CompletionMsg(c, i)
        IN  ( /\ role[c] = COORDINATOR
              /\ ~ dispatched[c][i].raised
              /\ m.content.status = "completed" )
            => /\ m.in_reply_to \in DOMAIN tasks[c]
               /\ tasks[c][m.in_reply_to].status # "assigned"

\* A worker's completion of one assignment is on record and the coordinator
\* has made a further assignment after that completion was published.
C27_Witness ==
    \E c \in Objs : \E i \in Completions(c) : \E j \in DOMAIN tasks[c] :
        LET m == CompletionMsg(c, i)
        IN  /\ role[c] = COORDINATOR
            /\ m.content.status = "completed"
            /\ Msg(m.in_reply_to).message_type = TASK_ASSIGNMENT
            /\ tasks[c][m.in_reply_to].status = "completed"
            /\ j > m.message_id
            /\ tasks[c][j].status = "assigned"

\* --------------------------------------------- claims about several systems
\* C28: with several systems on the one bus, every agent in a role list is the
\* agent stored under its own id, so that an id-addressed publish reaches it.
C28_SystemsShareBus ==
    \A r \in BusRoles : \A o \in Range(role_subscribers[r]) :
        /\ DictHas(subscribers, agent_id[o])
        /\ DictGet(subscribers, agent_id[o]) = o

\* ------------------------------------------- claims about the application
\* C29: whatever start() and stop() calls were made, the bus lists no agents
\* or the cohort of one start, at most one main_loop task is alive, and each
\* assignment to DATA_COLLECTOR reaches the three collectors of one cohort.
C29_OneCohortOneLoop ==
    /\ \/ app_role_subscribers = [r \in AgentRole |-> 0]
       \/ app_role_subscribers = InitializeCohort
    /\ main_loops <= 1
    /\ \A i \in 1..Len(app_reached) :
           app_reached[i] = InitializeCohort[DATA_COLLECTOR]

====
